---------------------------- MODULE Spec2Model ----------------------------
(***************************************************************************)
(* ReAgentLightningModule and StoppingEpochCallback                        *)
(* (reagent/training/reagent_lightning_module.py) as a state machine.      *)
(*                                                                         *)
(* The module bridges a generator-based training routine (train_step_gen)  *)
(* onto the per-optimizer training_step calls of the host trainer, and     *)
(* keeps two persisted buffers (_next_stopping_epoch, _cleanly_stopped)    *)
(* that let StoppingEpochCallback count epochs across incremental runs.    *)
(*                                                                         *)
(* A batch of the model stands for the pair (batch, batch_idx) the host    *)
(* passes: training_step hands both to train_step_gen and inspects neither.*)
(* The value a generator yields is <<batch, k>>: the k-th value yielded by *)
(* the generator made from that batch.                                     *)
(***************************************************************************)
EXTENDS Integers, Sequences, FiniteSets

\* ------------------------------------------------------------- bounds
\* Number of configured optimizers, len(configure_optimizers()), of the
\* larger of the two modules followed; the smaller has a single optimizer.
MaxOptimizers == 2
\* Number of distinct (batch, batch_idx) pairs the host may pass.
MaxBatch == 2
\* A generator yields between 0 and N + MaxExtraYields values.
MaxExtraYields == 2
\* SummaryWriterContext's global step is followed up to this value.
MaxGlobalStep == 2
\* Largest num_epochs of a StoppingEpochCallback.
MaxNumEpochs == 2
\* Epochs are followed up to this value of the trainer's epoch counter.
MaxEpoch == 3

VARIABLES
    \* ---- ReAgentLightningModule
    num_optimizing_steps,     \* lazy property _num_optimizing_steps
    training_step_generator,  \* _training_step_generator: None or a generator
    verified_steps,           \* _verified_steps
    next_stopping_epoch,      \* buffer _next_stopping_epoch
    cleanly_stopped,          \* buffer _cleanly_stopped
    \* ---- collaborators the module calls
    global_step,              \* SummaryWriterContext's global step
    flushed,                  \* epoch of the reporter's last flush, -1: none
    reporter,                 \* _reporter
    summary_writer_logger,    \* _summary_writer_logger: the logger last looked at
    summary_writer_cached,    \* _summary_writer: the writer found there
    \* ---- the host trainer
    current_epoch,            \* trainer.current_epoch
    should_stop,              \* trainer.should_stop
    phase,                    \* where the host's fit loop stands
    next_idx,                 \* optimizer_idx the batch loop passes next,
                              \* NoIdx once a training_step call has raised
    curBatch,                 \* the batch the batch loop is working on
    \* ---- observation of the calls (history)
    call,                     \* the last operation and its arguments
    ret,                      \* outcome of the last training_step call
    allExactN,                \* every generator so far yields exactly N values
    run,                      \* "clean": every run so far followed the clean
                              \* stop/resume protocol; "interrupted": this run
                              \* resumed a checkpoint written before the stop
    pretrained,               \* on_pretrain_routine_end has run in this run
    runM,                     \* num_epochs of this run's StoppingEpochCallback
    sumM,                     \* sum of num_epochs over the runs so far
    runEpochs,                \* training_epoch_end calls in this run
    resumeStop,               \* the stopping epoch an interrupted run restored
    increments                \* sum of the num_epochs passed to
                              \* increase_next_stopping_epochs so far

stepVars == <<training_step_generator, verified_steps, global_step>>
epochVars == <<next_stopping_epoch, cleanly_stopped, flushed, current_epoch,
               should_stop>>
loopVars == <<next_idx, curBatch>>
stepHist == <<ret, allExactN>>
epochHist == <<run, pretrained, runM, sumM, runEpochs, resumeStop>>
writerVars == <<reporter, summary_writer_logger, summary_writer_cached>>
vars == <<num_optimizing_steps, stepVars, epochVars, phase, loopVars, call,
          stepHist, epochHist, writerVars, increments>>

\* ------------------------------------------------------------- values
None == <<>>
Some(x) == <<x>>
Get(opt) == opt[1]

Batches == 1..MaxBatch
NoBatch == 0
NoIdx == -1
NoValue == <<NoBatch, 0>>
NoEpoch == -2

\* ------------------------------------------------------------- generators
\* A generator object made by train_step_gen(batch, batch_idx): it has
\* yielded pos values so far and yields len values in all. The body of
\* train_step_gen is the subclass's; len is its choice.
train_step_gen(batch, len) == [batch |-> batch, pos |-> 0, len |-> len]

\* next(g): the next value and the advanced generator, or StopIteration once
\* the generator has finished (a finished generator stays finished).
GenNext(g) ==
    IF g.pos < g.len
    THEN [stop |-> FALSE, value |-> <<g.batch, g.pos + 1>>,
          gen |-> [g EXCEPT !.pos = g.pos + 1]]
    ELSE [stop |-> TRUE, value |-> NoValue, gen |-> g]


\* ------------------------------------------------------------- training_step
\* Mutant: a generator is made on every call.
MutAlwaysNewGenerator(stored, batch, len) == train_step_gen(batch, len)

\* Mutant: a stored generator that has finished is replaced by a new one.
MutReplaceFinishedGenerator(stored, batch, len) ==
    IF stored = None \/ Get(stored).pos >= Get(stored).len
    THEN train_step_gen(batch, len) ELSE Get(stored)

\* Lines 88-89: a generator is made only when none is stored.
StoredOrNewGenerator(stored, batch, len) ==
    IF stored = None THEN train_step_gen(batch, len) ELSE Get(stored)

\* Line 93: the call for the last optimizer of the batch.
IsLastOptimizer(optimizer_idx, N) == optimizer_idx = N - 1

\* Mutant: the extra next() is never made, the steps count as verified.
MutNeverVerify(g, verified) == [gen |-> g, verified |-> TRUE, raised |-> FALSE]

\* Mutant: the yield count is verified on every batch.
MutAlwaysVerify(g, verified) ==
    LET extra == GenNext(g)
    IN  [gen |-> extra.gen, verified |-> (verified \/ extra.stop), raised |-> ~extra.stop]

\* Lines 94-100: the yield count is verified while _verified_steps is False.
\* The result of the check: the generator after the extra next(), whether
\* the steps are now verified, and whether RuntimeError is raised.
VerifySteps(g, verified) ==
    IF ~verified
    THEN LET extra == GenNext(g)
         IN  [gen |-> extra.gen, verified |-> extra.stop, raised |-> ~extra.stop]
    ELSE [gen |-> g, verified |-> verified, raised |-> FALSE]

\* Line 91 raising StopIteration: the fields stay as they are, the generator
\* (which line 89 may just have stored) included.
RaiseStopIteration(g, verified, step) ==
    [generator |-> Some(g), verified |-> verified, step |-> step,
     kind |-> "StopIteration", value |-> NoValue]

\* Mutant: the generator is dropped before RuntimeError is raised.
MutRaiseDropsGenerator(g, verified, step) ==
    [generator |-> None, verified |-> verified, step |-> step,
     kind |-> "RuntimeError", value |-> NoValue]

\* Line 100 raising RuntimeError: lines 101-102 are not reached, so the
\* generator stays stored and the global step is not increased.
RaiseTooManyYields(g, verified, step) ==
    [generator |-> Some(g), verified |-> verified, step |-> step,
     kind |-> "RuntimeError", value |-> NoValue]

\* Mutant: the global step is not increased at the end of a batch.
MutFinishWithoutGlobalStep(verified, step, value) ==
    [generator |-> None, verified |-> verified, step |-> step,
     kind |-> "value", value |-> value]

\* Lines 101-104 for the last optimizer: the generator is dropped, the global
\* step increased and the value returned.
FinishBatch(verified, step, value) ==
    [generator |-> None, verified |-> verified, step |-> step + 1,
     kind |-> "value", value |-> value]

\* Line 104 for any other optimizer: the value is returned, the generator
\* stays stored.
ReturnStep(g, verified, step, value) ==
    [generator |-> Some(g), verified |-> verified, step |-> step,
     kind |-> "value", value |-> value]

\* training_step(batch, batch_idx, optimizer_idx) on a module whose fields
\* are stored, verified, N and a writer context at global step `step`; len is
\* the number of values a generator made by this call would yield. The
\* result: the fields after the call and what the call returns or raises.
training_step(stored, verified, N, step, batch, optimizer_idx, len) ==
    LET g0  == StoredOrNewGenerator(stored, batch, len)
        fst == GenNext(g0)
        chk == VerifySteps(fst.gen, verified)
    IN  IF fst.stop
        THEN RaiseStopIteration(fst.gen, verified, step)
        ELSE IF ~IsLastOptimizer(optimizer_idx, N)
        THEN ReturnStep(fst.gen, verified, step, fst.value)
        ELSE IF chk.raised
        THEN RaiseTooManyYields(chk.gen, chk.verified, step)
        ELSE FinishBatch(chk.verified, step, fst.value)

\* ------------------------------------------------------------- epochs
\* Mutant: the trainer is told to stop one epoch late.
MutStopOneEpochLate(epoch, stopping) == epoch = stopping + 1

\* Line 115: the epoch at which the trainer is told to stop.
IsStoppingEpoch(epoch, stopping) == epoch = stopping

\* Mutant: the stopping epoch is set from num_epochs, not increased by it.
MutSetStoppingEpoch(stopping, flag, num_epochs) ==
    [next_stopping_epoch |-> num_epochs - 1, cleanly_stopped |-> FALSE]

\* Mutant: the stopping epoch is increased by one epoch too many.
MutIncreaseOneMore(stopping, flag, num_epochs) ==
    [next_stopping_epoch |-> stopping + num_epochs + 1, cleanly_stopped |-> FALSE]

\* Lines 40-43: increase_next_stopping_epochs(num_epochs) on the two buffers.
increase_next_stopping_epochs(stopping, flag, num_epochs) ==
    [next_stopping_epoch |-> stopping + num_epochs, cleanly_stopped |-> FALSE]

\* Mutant: the stopping epoch is increased whatever the flag says.
MutIgnoreCleanlyStopped(stopping, flag, num_epochs) ==
    [next_stopping_epoch |-> stopping + num_epochs, cleanly_stopped |-> FALSE]

\* Lines 137-140: StoppingEpochCallback(num_epochs).on_pretrain_routine_end.
on_pretrain_routine_end(stopping, flag, num_epochs) ==
    IF flag
    THEN increase_next_stopping_epochs(stopping, flag, num_epochs)
    ELSE [next_stopping_epoch |-> stopping, cleanly_stopped |-> flag]

\* Mutant: the epoch end that tells the trainer to stop marks the module
\* cleanly stopped.
MutEpochEndMarksClean(epoch, stopping, stop, flag) ==
    [should_stop |-> (stop \/ epoch = stopping),
     cleanly_stopped |-> (flag \/ epoch = stopping)]

\* training_epoch_end (lines 110-117) on the trainer's stop flag and the
\* cleanly-stopped buffer: the trainer is told to stop at the stopping epoch,
\* the buffer is left alone.
training_epoch_end(epoch, stopping, stop, flag) ==
    [should_stop |-> (stop \/ IsStoppingEpoch(epoch, stopping)),
     cleanly_stopped |-> flag]

\* Lines 25-28: the buffers of a module as constructed.
InitStoppingEpoch == -1
InitCleanlyStopped == TRUE

\* ------------------------------------------------------------- reporter, writer
\* Line 18: the reporter of a module as constructed.
DummyExperiment == "DummyExperiment"
\* The reporters set_reporter may be given; "None" is Python's None.
Reporters == {"None", "reporter"}

\* Lines 30-34: set_reporter(reporter), as the value _reporter takes.
set_reporter(given) == IF given = "None" THEN DummyExperiment ELSE given

\* What self.logger may be: no logger (None), a TensorBoardLogger, or a
\* LoggerCollection with or without a TensorBoardLogger in it.
NoLogger == "None"
Loggers == {NoLogger, "TensorBoardLogger", "LoggerCollection(TensorBoardLogger)",
            "LoggerCollection()"}
IsLoggerCollection(lg) ==
    lg \in {"LoggerCollection(TensorBoardLogger)", "LoggerCollection()"}
NoWriter == "None"

\* Lines 73-77: the experiment of the first TensorBoardLogger of a collection.
CollectionWriter(lg) ==
    IF lg = "LoggerCollection(TensorBoardLogger)" THEN "experiment" ELSE NoWriter

\* Lines 60-81: the summary_writer property read while self.logger is lg, on
\* the cache <<cached_logger, cached_writer>>. The cache is returned while
\* the logger is the one last looked at; else it is invalidated and a
\* collection is searched. Line 78 reads `logger`, which the loop of line 74
\* makes a local of the function: with a logger that is no collection the
\* loop has not run and the read raises UnboundLocalError, the cache already
\* invalidated.
summary_writer(cached_logger, cached_writer, lg) ==
    IF cached_logger = lg
    THEN [logger |-> cached_logger, writer |-> cached_writer,
          kind |-> "value", value |-> cached_writer]
    ELSE IF IsLoggerCollection(lg)
    THEN [logger |-> lg, writer |-> CollectionWriter(lg),
          kind |-> "value", value |-> CollectionWriter(lg)]
    ELSE [logger |-> lg, writer |-> NoWriter,
          kind |-> "UnboundLocalError", value |-> NoWriter]

\* ------------------------------------------------------------- history
NoCall(op) == [op |-> op, batch |-> NoBatch, optimizer_idx |-> NoIdx,
               created |-> FALSE, yields |-> 0,
               num_epochs |-> 0, wasClean |-> FALSE]
NoRet == [kind |-> "none", value |-> NoValue]

\* ------------------------------------------------------------- Init
\* The state after ReAgentLightningModule() (lines 15-28) handed to a new
\* trainer: nothing stored, nothing verified, stopping epoch -1, cleanly
\* stopped.
Init ==
    /\ num_optimizing_steps \in {1, MaxOptimizers}
    /\ training_step_generator = None
    /\ verified_steps = FALSE
    /\ next_stopping_epoch = InitStoppingEpoch
    /\ cleanly_stopped = InitCleanlyStopped
    /\ global_step = 0
    /\ flushed = -1
    /\ current_epoch = 0
    /\ should_stop = FALSE
    /\ phase = "pretrain"
    /\ next_idx = 0
    /\ curBatch = NoBatch
    /\ call = NoCall("init")
    /\ ret = NoRet
    /\ allExactN = TRUE
    /\ run = "clean"
    /\ pretrained = FALSE
    /\ runM = 0
    /\ sumM = 0
    /\ runEpochs = 0
    /\ resumeStop = NoEpoch
    /\ reporter = DummyExperiment
    /\ summary_writer_logger = NoLogger
    /\ summary_writer_cached = NoWriter
    /\ increments = 0

\* ------------------------------------------------------------- actions
\* The host calls training_step(batch, batch_idx, optimizer_idx); len is the
\* number of values train_step_gen's generator yields if this call makes one.
\* The batch loop passes optimizer_idx = 0 .. N-1 in order for each batch;
\* once a call has raised, whoever goes on calling may pass anything.
TrainingStep(batch, optimizer_idx, len) ==
    LET N   == num_optimizing_steps
        out == training_step(training_step_generator, verified_steps, N,
                             global_step, batch, optimizer_idx, len)
        looping == next_idx # NoIdx /\ out.kind = "value"
    IN  /\ phase \in {"pretrain", "fit"}
        /\ global_step < MaxGlobalStep
        /\ next_idx # NoIdx => /\ optimizer_idx = next_idx
                               /\ optimizer_idx > 0 => batch = curBatch
        /\ training_step_generator' = out.generator
        /\ verified_steps' = out.verified
        /\ global_step' = out.step
        /\ phase' = "fit"
        /\ next_idx' = IF looping THEN (optimizer_idx + 1) % N ELSE NoIdx
        /\ curBatch' = IF looping /\ optimizer_idx + 1 < N THEN batch ELSE NoBatch
        /\ call' = [NoCall("training_step") EXCEPT
                       !.batch = batch, !.optimizer_idx = optimizer_idx,
                       !.created = (training_step_generator = None),
                       !.yields = IF training_step_generator = None THEN len
                                  ELSE Get(training_step_generator).len]
        /\ ret' = [kind |-> out.kind, value |-> out.value]
        /\ allExactN' = (allExactN /\ (training_step_generator = None => len = N))
        /\ UNCHANGED <<num_optimizing_steps, epochVars, epochHist, writerVars,
                       increments>>

\* The host runs StoppingEpochCallback(num_epochs).on_pretrain_routine_end
\* before the first epoch of a run.
OnPretrainRoutineEnd(num_epochs) ==
    LET out == on_pretrain_routine_end(next_stopping_epoch, cleanly_stopped, num_epochs)
        ok  == run = "clean" /\ ~pretrained /\ num_epochs >= 1 /\ cleanly_stopped
    IN  /\ phase = "pretrain"
        /\ out.next_stopping_epoch <= MaxEpoch
        /\ next_stopping_epoch' = out.next_stopping_epoch
        /\ cleanly_stopped' = out.cleanly_stopped
        /\ call' = [NoCall("on_pretrain_routine_end") EXCEPT
                       !.num_epochs = num_epochs, !.wasClean = cleanly_stopped]
        /\ run' = IF run = "clean" /\ ~ok THEN "other" ELSE run
        /\ pretrained' = TRUE
        /\ runM' = IF ok THEN num_epochs ELSE 0
        /\ sumM' = IF ok THEN sumM + num_epochs ELSE 0
        /\ increments' = IF cleanly_stopped THEN increments + num_epochs
                         ELSE increments
        /\ UNCHANGED <<num_optimizing_steps, stepVars, flushed, current_epoch,
                       should_stop, phase, loopVars, stepHist, runEpochs, resumeStop,
                       writerVars>>

\* The host calls training_epoch_end at the end of epoch current_epoch, after
\* the epoch's last batch (lines 110-117): the reporter is flushed and the
\* trainer told to stop at the stopping epoch.
TrainingEpochEnd ==
    LET ok  == run = "clean" /\ pretrained
        out == training_epoch_end(current_epoch, next_stopping_epoch, should_stop,
                                  cleanly_stopped)
    IN  /\ phase \in {"pretrain", "fit"}
        /\ next_idx \in {0, NoIdx}
        /\ flushed' = current_epoch
        /\ should_stop' = out.should_stop
        /\ cleanly_stopped' = out.cleanly_stopped
        /\ phase' = "epoch_end"
        /\ call' = NoCall("training_epoch_end")
        /\ run' = IF run = "clean" /\ ~ok THEN "other" ELSE run
        /\ runEpochs' = IF ok THEN runEpochs + 1 ELSE 0
        /\ runM' = IF ok THEN runM ELSE 0
        /\ sumM' = IF ok THEN sumM ELSE 0
        /\ UNCHANGED <<num_optimizing_steps, stepVars, next_stopping_epoch,
                       current_epoch, loopVars, stepHist, pretrained, resumeStop,
                       writerVars, increments>>

\* The host's fit loop goes on to the next epoch unless told to stop.
NextEpoch ==
    /\ phase = "epoch_end"
    /\ ~should_stop
    /\ current_epoch < MaxEpoch
    /\ current_epoch' = current_epoch + 1
    /\ phase' = "fit"
    /\ call' = NoCall("next_epoch")
    /\ UNCHANGED <<num_optimizing_steps, stepVars, next_stopping_epoch,
                   cleanly_stopped, flushed, should_stop, loopVars,
                   stepHist, epochHist, writerVars, increments>>

\* ModelManager.save_trainer once the run is over: _cleanly_stopped is set
\* back to True before the checkpoint is saved (docstring, lines 127-128).
SaveTrainer ==
    LET ok == run = "clean" /\ should_stop
    IN  /\ phase = "epoch_end"
        /\ cleanly_stopped' = TRUE
        /\ phase' = "saved"
        /\ call' = NoCall("save_trainer")
        /\ run' = IF ok THEN "clean" ELSE "other"
        /\ runEpochs' = IF ok THEN runEpochs ELSE 0
        /\ runM' = IF ok THEN runM ELSE 0
        /\ sumM' = IF ok THEN sumM ELSE 0
        /\ resumeStop' = NoEpoch
        /\ UNCHANGED <<num_optimizing_steps, stepVars, next_stopping_epoch, flushed,
                       current_epoch, should_stop, loopVars, stepHist, pretrained,
                       writerVars, increments>>

\* The next run, or the resumption of an interrupted one, from the checkpoint
\* of the last completed epoch: save_trainer's, or the one the host wrote at
\* the end of the epoch with the buffers as they were. A new module is
\* constructed (lines 15-28), the checkpoint's two buffers are loaded into it
\* and a new trainer starts at the checkpoint's epoch counter, which is not
\* reset (docstring, line 123).
Restore ==
    LET ok == run = "clean" /\ phase = "saved"
    IN  /\ phase \in {"epoch_end", "saved"}
        /\ current_epoch < MaxEpoch
        /\ training_step_generator' = None
        /\ verified_steps' = FALSE
        /\ flushed' = -1
        /\ current_epoch' = current_epoch + 1
        /\ should_stop' = FALSE
        /\ phase' = "pretrain"
        /\ next_idx' = 0
        /\ curBatch' = NoBatch
        /\ call' = NoCall("restore")
        /\ ret' = NoRet
        /\ allExactN' = TRUE
        /\ run' = IF ok THEN "clean"
                  ELSE IF ~cleanly_stopped THEN "interrupted"
                  ELSE "other"
        /\ pretrained' = FALSE
        /\ runM' = 0
        /\ sumM' = IF ok THEN sumM ELSE 0
        /\ runEpochs' = 0
        /\ resumeStop' = IF ~ok /\ ~cleanly_stopped THEN next_stopping_epoch ELSE NoEpoch
        /\ reporter' = DummyExperiment
        /\ summary_writer_logger' = NoLogger
        /\ summary_writer_cached' = NoWriter
        /\ UNCHANGED <<num_optimizing_steps, global_step, next_stopping_epoch,
                       cleanly_stopped, increments>>

\* The numbers of values a generator made now may yield: fewer than N, N, or
\* up to MaxExtraYields more.
YieldCounts ==
    IF training_step_generator = None
    THEN 0..(num_optimizing_steps + MaxExtraYields)
    ELSE {0}

Next ==
    \/ \E batch \in Batches, optimizer_idx \in 0..(num_optimizing_steps - 1),
          len \in YieldCounts :
            TrainingStep(batch, optimizer_idx, len)
    \/ \E num_epochs \in 0..MaxNumEpochs : OnPretrainRoutineEnd(num_epochs)
    \/ TrainingEpochEnd
    \/ NextEpoch
    \/ SaveTrainer
    \/ Restore

Spec == Init /\ [][Next]_vars

\* set_reporter(given) (lines 30-34).
SetReporter(given) ==
    /\ reporter' = set_reporter(given)
    /\ call' = NoCall("set_reporter")
    /\ UNCHANGED <<num_optimizing_steps, stepVars, epochVars, phase, loopVars,
                   stepHist, epochHist, summary_writer_logger,
                   summary_writer_cached, increments>>

\* The summary_writer property is read (lines 60-81) while the trainer's
\* logger is lg.
SummaryWriter(lg) ==
    LET out == summary_writer(summary_writer_logger, summary_writer_cached, lg)
    IN  /\ summary_writer_logger' = out.logger
        /\ summary_writer_cached' = out.writer
        /\ call' = NoCall("summary_writer")
        /\ UNCHANGED <<num_optimizing_steps, stepVars, epochVars, phase, loopVars,
                       stepHist, epochHist, reporter, increments>>

\* The numbers of values a generator made now may yield: N, or one more (the
\* batch then ends in RuntimeError and the calls after it in StopIteration).
NearYieldCounts ==
    IF training_step_generator = None
    THEN {num_optimizing_steps, num_optimizing_steps + 1}
    ELSE {0}

\* Every operation of the module and of the callback.
NextAll ==
    \/ \E batch \in Batches, optimizer_idx \in 0..(num_optimizing_steps - 1),
          len \in NearYieldCounts :
            TrainingStep(batch, optimizer_idx, len)
    \/ \E num_epochs \in 0..MaxNumEpochs : OnPretrainRoutineEnd(num_epochs)
    \/ TrainingEpochEnd
    \/ NextEpoch
    \/ SaveTrainer
    \/ Restore
    \/ \E given \in Reporters : SetReporter(given)
    \/ \E lg \in Loggers : SummaryWriter(lg)

SpecAll == Init /\ [][NextAll]_vars

\* ------------------------------------------------------------- properties
N == num_optimizing_steps
IsStepCall == call.op = "training_step"
\* The batch loop is intact: no training_step call of this module has raised.
InLoop == next_idx # NoIdx
Stored == training_step_generator # None
\* The stored generator has finished: next() on it raises StopIteration.
Exhausted(stored) == stored # None /\ Get(stored).pos >= Get(stored).len
EpochEnded == phase \in {"epoch_end", "saved"}

\* C1: with generators that yield exactly N values and the host calling
\* training_step with optimizer_idx = 0 .. N-1 in order for each batch, the
\* call with optimizer_idx = k returns the (k+1)-th value of the generator
\* made from that batch, and a generator is made by the optimizer_idx = 0
\* call and by no other: one generator per batch.
C1_StepReturnsKthYield ==
    (IsStepCall /\ allExactN) =>
        /\ InLoop
        /\ ret = [kind |-> "value", value |-> <<call.batch, call.optimizer_idx + 1>>]
        /\ call.created <=> call.optimizer_idx = 0
        /\ Stored <=> call.optimizer_idx < N - 1
        /\ Stored => Get(training_step_generator).batch = call.batch

\* The second batch of a two-optimizer module returns its second value.
C1_Witness ==
    /\ IsStepCall /\ allExactN /\ N = 2
    /\ global_step = 2
    /\ call.optimizer_idx = 1
    /\ ret = [kind |-> "value", value |-> <<call.batch, 2>>]

\* The first run of the clean protocol: a module as constructed, one
\* StoppingEpochCallback(runM) with runM >= 1 run once before the epochs.
FirstRun == run = "clean" /\ pretrained /\ sumM = runM

\* C2: in the first run with StoppingEpochCallback(k), k >= 1, should_stop is
\* set at the end of epoch k-1, after exactly k epochs, and not before.
C2_StopsAfterKEpochs ==
    FirstRun =>
        /\ runM >= 1
        /\ should_stop <=> (EpochEnded /\ current_epoch = runM - 1)
        /\ runEpochs = current_epoch + (IF EpochEnded THEN 1 ELSE 0)
        /\ should_stop => runEpochs = runM

\* A first run of two epochs told to stop at the end of epoch 1.
C2_Witness ==
    /\ FirstRun /\ runM = 2
    /\ should_stop /\ current_epoch = 1
    /\ call.op = "training_epoch_end"

\* C3: over runs that each stop at their stopping epoch, are saved by
\* save_trainer and restored, run i with StoppingEpochCallback(m_i) trains
\* with stopping epoch -1 + m_1 + ... + m_i and is told to stop after exactly
\* m_i epochs of its own.
C3_IncrementalEpochs ==
    (run = "clean" /\ pretrained) =>
        /\ next_stopping_epoch = -1 + sumM
        /\ runEpochs <= runM
        /\ should_stop <=> runEpochs = runM
        /\ should_stop => current_epoch = next_stopping_epoch

\* A later run of the protocol told to stop after its own two epochs.
C3_Witness ==
    /\ run = "clean" /\ pretrained
    /\ sumM > runM /\ runM = 2
    /\ should_stop /\ runEpochs = 2

\* C4: on_pretrain_routine_end on a module whose cleanly-stopped flag is
\* False changes neither buffer, whatever the callback's num_epochs and
\* however often it runs; so a run resumed from a checkpoint written before
\* the stop keeps the stopping epoch it restored and is told to stop there.
C4_UncleanResumeKeepsStoppingEpoch ==
    [][ /\ (call'.op = "on_pretrain_routine_end" /\ ~cleanly_stopped) =>
               /\ next_stopping_epoch' = next_stopping_epoch
               /\ cleanly_stopped' = cleanly_stopped
        /\ (call'.op = "on_pretrain_routine_end"
              /\ next_stopping_epoch' # next_stopping_epoch) =>
               (cleanly_stopped /\ ~cleanly_stopped')
        /\ run' = "interrupted" =>
               /\ ~cleanly_stopped'
               /\ next_stopping_epoch' = resumeStop'
               /\ should_stop' => current_epoch' = resumeStop'
      ]_vars

\* An interrupted run, resumed with the flag False, whose callback has run
\* and which is told to stop at the stopping epoch it restored.
C4_Witness ==
    /\ run = "interrupted" /\ pretrained
    /\ ~cleanly_stopped
    /\ should_stop /\ current_epoch = resumeStop
    /\ next_stopping_epoch = resumeStop

\* C5: on the first batch a module processes, the training_step call for the
\* last optimizer raises RuntimeError when the batch's generator yields more
\* than N values.
C5_TooManyYieldsRaises ==
    [][ (/\ call'.op = "training_step"
         /\ InLoop /\ ~verified_steps
         /\ call'.optimizer_idx = N - 1
         /\ call'.yields > N) =>
            ret' = [kind |-> "RuntimeError", value |-> NoValue]
      ]_vars

\* The last optimizer's call of a first batch of N + 1 yields has raised.
C5_Witness ==
    /\ IsStepCall /\ N = 2
    /\ call.optimizer_idx = N - 1 /\ call.yields = N + 1
    /\ ret.kind = "RuntimeError"
    /\ global_step = 0

\* C6: the cleanly-stopped flag goes from False to True by save_trainer
\* alone: training_step, training_epoch_end (the one that sets should_stop
\* included) and on_pretrain_routine_end never set it to True.
C6_OnlySaveTrainerMarksClean ==
    [][ /\ (~cleanly_stopped /\ cleanly_stopped') => call'.op = "save_trainer"
        /\ call'.op \in {"training_step", "training_epoch_end",
                         "on_pretrain_routine_end"} =>
               (cleanly_stopped' => cleanly_stopped)
      ]_vars

\* The epoch end that told the trainer to stop, the flag still False.
C6_Witness ==
    /\ call.op = "training_epoch_end"
    /\ should_stop
    /\ ~cleanly_stopped
    /\ global_step > 0

\* C7: the global step is increased by, and only by, a training_step call
\* for the last optimizer that returns; and while the batch loop is in order
\* no generator is stored exactly between batches, a call that raised
\* leaving its generator stored.
C7_GlobalStepPerBatch ==
    [][ /\ global_step' = global_step +
               (IF /\ call'.op = "training_step"
                   /\ call'.optimizer_idx = N - 1
                   /\ ret'.kind = "value"
                THEN 1 ELSE 0)
        /\ next_idx' # NoIdx => (training_step_generator' = None <=> next_idx' = 0)
        /\ ret'.kind \in {"StopIteration", "RuntimeError"} =>
               training_step_generator' # None
      ]_vars

\* Two batches of a two-optimizer module completed, nothing stored.
C7_Witness ==
    /\ IsStepCall /\ N = 2 /\ InLoop
    /\ call.optimizer_idx = 1 /\ ret.kind = "value"
    /\ global_step = 2
    /\ training_step_generator = None

\* C8: once _verified_steps is True it stays True on that module, and
\* training_step never raises RuntimeError again: in the batch loop a later
\* batch's generator is advanced N times and dropped, whatever it would
\* still yield.
C8_VerifiedOnce ==
    [][ (verified_steps /\ call'.op # "restore") =>
            /\ verified_steps'
            /\ call'.op = "training_step" => ret'.kind # "RuntimeError"
            /\ (call'.op = "training_step" /\ InLoop) =>
                   /\ training_step_generator' # None =>
                          Get(training_step_generator').pos < N
                   /\ (ret'.kind = "value" /\ call'.optimizer_idx = N - 1) =>
                          /\ training_step_generator' = None
                          /\ ret'.value = <<call'.batch, N>>
      ]_vars

\* A verified module finishes a batch whose generator would yield more than
\* N values.
C8_Witness ==
    /\ IsStepCall /\ InLoop /\ N = 2
    /\ verified_steps
    /\ call.yields > N
    /\ call.optimizer_idx = N - 1
    /\ ret = [kind |-> "value", value |-> <<call.batch, N>>]
    /\ training_step_generator = None
    /\ global_step = 2

\* C9: a generator that yields j < N values makes the call with
\* optimizer_idx = j raise StopIteration and stay stored, the global step
\* unchanged; with the finished generator stored every later training_step
\* call raises StopIteration too and no generator is made.
C9_FinishedGeneratorSticks ==
    [][ call'.op = "training_step" =>
          /\ (InLoop /\ call'.yields < N) =>
                 (ret'.kind = "StopIteration" <=> call'.optimizer_idx = call'.yields)
          /\ (Exhausted(training_step_generator)
                \/ (training_step_generator = None /\ call'.yields = 0)) =>
                 /\ ret'.kind = "StopIteration"
                 /\ Exhausted(training_step_generator')
                 /\ call'.created <=> training_step_generator = None
                 /\ training_step_generator # None =>
                        training_step_generator' = training_step_generator
                 /\ global_step' = global_step
                 /\ verified_steps' = verified_steps
      ]_vars

\* A call for another batch raises StopIteration from the stored generator
\* of a batch that yielded fewer than N values.
C9_Witness ==
    /\ IsStepCall /\ N = 2
    /\ ret.kind = "StopIteration"
    /\ ~call.created
    /\ ~InLoop
    /\ training_step_generator # None
    /\ Get(training_step_generator).batch # call.batch
    /\ Get(training_step_generator).len = 1
    /\ call.optimizer_idx = 0

\* C10: the call that raises RuntimeError leaves the global step and
\* _verified_steps as they were and the generator, advanced N + 1 times,
\* stored; the next training_step call makes no generator and goes on with
\* the stored one.
C10_RuntimeErrorKeepsGenerator ==
    [][ call'.op = "training_step" =>
          /\ ret'.kind = "RuntimeError" =>
                 /\ global_step' = global_step
                 /\ ~verified_steps'
                 /\ training_step_generator' # None
                 /\ InLoop => Get(training_step_generator').pos = N + 1
          /\ ret.kind = "RuntimeError" =>
                 /\ training_step_generator # None
                 /\ ~call'.created
                 /\ ret'.kind = "value" =>
                        ret'.value = <<Get(training_step_generator).batch,
                                       Get(training_step_generator).pos + 1>>
      ]_vars

\* After the RuntimeError a call for another batch returns the old
\* generator's next value.
C10_Witness ==
    /\ IsStepCall
    /\ ret.kind = "value"
    /\ ~call.created
    /\ ret.value[1] # call.batch
    /\ ret.value[2] = N + 2

\* C11: of the module's operations only increase_next_stopping_epochs (run
\* by on_pretrain_routine_end when the flag is True) changes the two buffers:
\* training_step, training_epoch_end, set_reporter and summary_writer leave
\* both unchanged; the increase adds exactly num_epochs and sets the flag to
\* False; so the stopping epoch never decreases and is -1 plus the sum of the
\* increments applied. (save_trainer, outside the module, sets the flag back
\* to True.)
C11_OnlyIncreaseChangesBuffers ==
    [][ /\ call'.op \in {"training_step", "training_epoch_end", "set_reporter",
                         "summary_writer"} =>
               /\ next_stopping_epoch' = next_stopping_epoch
               /\ cleanly_stopped' = cleanly_stopped
        /\ (\/ next_stopping_epoch' # next_stopping_epoch
            \/ (cleanly_stopped /\ ~cleanly_stopped')) =>
               (call'.op = "on_pretrain_routine_end" /\ cleanly_stopped)
        /\ (call'.op = "on_pretrain_routine_end" /\ cleanly_stopped) =>
               /\ next_stopping_epoch' = next_stopping_epoch + call'.num_epochs
               /\ ~cleanly_stopped'
        /\ next_stopping_epoch' >= next_stopping_epoch
        /\ next_stopping_epoch' = InitStoppingEpoch + increments'
      ]_vars

\* A later run's callback has increased the stopping epoch of a module whose
\* reporter was set and whose summary writer was read.
C11_Witness ==
    /\ call.op = "on_pretrain_routine_end"
    /\ call.wasClean /\ call.num_epochs = 2
    /\ increments = 3
    /\ next_stopping_epoch = 2
    /\ ~cleanly_stopped
    /\ reporter = "reporter"
    /\ summary_writer_cached = "experiment"

=============================================================================
